---- MODULE Spec2Model ----
(***************************************************************************)
(* Drug-protein affinity pipeline of                                       *)
(* drug_affinity_prediction_using_neural_networks.ipynb:                   *)
(*   encode_sequences, train_test_split_proteins, prepare_dataloader,      *)
(*   train_model, evaluate_model_with_metrics.                             *)
(*                                                                         *)
(* Each function is a state machine of its own (SpecEncode, SpecSplit,     *)
(* SpecTrain, SpecEval); the module's variables are shared and a           *)
(* specification leaves the variables of the other functions at Idle.      *)
(*                                                                         *)
(* Library behaviour is that of the releases the notebook's kernel         *)
(* (Python 3.12) can run: scikit-learn >= 1.3, pandas >= 2.1,              *)
(* scipy >= 1.11, lifelines, torch.  Real-valued metrics are exact         *)
(* rationals [num, den]; the two places where double rounding decides an   *)
(* integer (the held-out count, the 70% sample size) are modelled bit for  *)
(* bit by integer arithmetic on the double's mantissa.                     *)
(***************************************************************************)
EXTENDS Integers, Sequences, FiniteSets, TLC

VARIABLES
    pc,            \* position of the running function
    error,         \* the exception that ended it, "none" otherwise
    df,            \* the data frame: a sequence of rows, index label = position
    new_proteins,  \* the policy flag train_test_split_proteins was called with
    train_proteins,\* Policy A: the protein ids kept for training
    test_proteins, \* Policy A: the held-out protein ids
    train_data,    \* returned train frame, as the sequence of its index labels
    test_data,     \* returned test frame, as the sequence of its index labels
    n_rows,        \* len(dataset) behind the DataLoader
    batch_size,    \* DataLoader batch_size
    epochs,        \* train_model's epochs argument
    epoch,         \* index of the running pass (range(epochs))
    pass_rows,     \* rows the running pass has yielded so far, in order
    n_batches,     \* batches the running pass has yielded so far
    total_loss,    \* train_model's total_loss
    losses,        \* the loss.item() of each batch of the running pass
    opt_steps,     \* number of optimizer.step() calls so far
    reports,       \* the per-epoch values train_model printed
    affinity,      \* affinity of each row behind the test loader
    model_out,     \* the trained model's output for each row (eval mode)
    y_true,        \* evaluate_model_with_metrics' y_true list
    y_pred,        \* evaluate_model_with_metrics' y_pred list
    metrics        \* the returned (mse, r2, ci, pearson_corr, aupr)

vars == <<pc, error, df, new_proteins, train_proteins, test_proteins, train_data, test_data, n_rows,
          batch_size, epochs, epoch, pass_rows, n_batches, total_loss, losses,
          opt_steps, reports, affinity, model_out, y_true, y_pred, metrics>>

splitVars == <<new_proteins, train_proteins, test_proteins, train_data, test_data>>
loaderVars == <<n_rows, batch_size, pass_rows, n_batches>>
trainVars == <<epochs, epoch, total_loss, losses, opt_steps, reports>>
evalVars == <<affinity, model_out, y_true, y_pred, metrics>>

Idle == "idle"

IdleSplit ==
    /\ new_proteins = Idle /\ train_proteins = Idle /\ test_proteins = Idle
    /\ train_data = Idle /\ test_data = Idle
IdleLoader == n_rows = Idle /\ batch_size = Idle /\ pass_rows = Idle /\ n_batches = Idle
IdleTrain ==
    /\ epochs = Idle /\ epoch = Idle /\ total_loss = Idle /\ losses = Idle
    /\ opt_steps = Idle /\ reports = Idle
IdleEval == affinity = Idle /\ model_out = Idle /\ y_true = Idle /\ y_pred = Idle /\ metrics = Idle

(***************************************************************************)
(* Generic helpers                                                         *)
(***************************************************************************)
Range(s) == {s[i] : i \in DOMAIN s}

Max(S) == CHOOSE x \in S : \A y \in S : y <= x

RECURSIVE SumOver(_, _)
SumOver(f, S) ==
    IF S = {} THEN 0
    ELSE LET x == CHOOSE x \in S : TRUE IN f[x] + SumOver(f, S \ {x})

\* the elements of a set S of integers that lie in lo..hi, in increasing order
RECURSIVE Ascending(_, _, _)
Ascending(S, lo, hi) ==
    IF lo > hi THEN <<>>
    ELSE IF lo = hi THEN (IF lo \in S THEN <<lo>> ELSE <<>>)
    ELSE Ascending(S, lo, (lo + hi) \div 2) \o Ascending(S, ((lo + hi) \div 2) + 1, hi)

\* the elements of a set of integers in increasing order
SortedSeq(S) ==
    IF S = {} THEN <<>>
    ELSE Ascending(S, CHOOSE x \in S : \A y \in S : x <= y, Max(S))

\* the sequences of k distinct elements of S
Arrangements(S, k) ==
    {a \in [1..k -> S] : \A i, j \in 1..k : i # j => a[i] # a[j]}

\* all sequences over S of length 0..n
SeqsUpTo(S, n) == UNION {[1..k -> S] : k \in 0..n}

\* n zeros: Python's [0] * n
Zeros(n) == [i \in 1..n |-> 0]

(***************************************************************************)
(* encode_sequences                                                        *)
(***************************************************************************)
\* bounds of the frames handed to encode_sequences
MaxLen == 2
EncRowCounts == {1, 2}
SmilesChars == {"C", "O"}
SeqChars == {"Y", "X"}

amino_acids == <<"A", "C", "D", "E", "F", "G", "H", "I", "K", "L",
                 "M", "N", "P", "Q", "R", "S", "T", "V", "W", "Y">>

\* {aa: i+1 for i, aa in enumerate(amino_acids)}; enumerate counts from 0,
\* TLA+ sequences from 1, so position i of the tuple is Python's i-1.
aa_to_num == [aa \in Range(amino_acids) |->
                 ((CHOOSE i \in DOMAIN amino_acids : amino_acids[i] = aa) - 1) + 1]

\* dict.get(key, 0)
Get(d, key) == IF key \in DOMAIN d THEN d[key] ELSE 0

\* max(df[col].apply(len))
MaxColLen(frame, col) == Max({Len(frame[i][col]) : i \in DOMAIN frame})

\* set("".join(df['SMILES']))
CharSet(frame, col) == UNION {Range(frame[i][col]) : i \in DOMAIN frame}

\* the orders in which enumerate(char_set) can walk the set: every
\* assignment of 1..|char_set| to its characters
Enumerations(S) == {f \in [S -> 1..Cardinality(S)] :
                       \A a, b \in S : a # b => f[a] # f[b]}

\* Encode gone wrong: the padding is left out
EncodeNoPad(d, s, max_len) == [i \in 1..Len(s) |-> Get(d, s[i])]

\* [d.get(c, 0) for c in s] + [0] * (max_len - len(s))
Encode(d, s, max_len) ==
    [i \in 1..Len(s) |-> Get(d, s[i])] \o Zeros(max_len - Len(s))

EncFrames ==
    UNION {[1..n -> [Protein : {1},
                     SMILES : SeqsUpTo(SmilesChars, MaxLen),
                     Sequence : SeqsUpTo(SeqChars, MaxLen)]] : n \in EncRowCounts}

InitEncode ==
    /\ pc = "loaded"
    /\ error = "none"
    /\ df \in EncFrames
    /\ IdleSplit /\ IdleLoader /\ IdleTrain /\ IdleEval

encode_sequences ==
    /\ pc = "loaded"
    /\ LET max_seq_len == MaxColLen(df, "Sequence")
           max_smiles_len == MaxColLen(df, "SMILES")
           char_set == CharSet(df, "SMILES")
       IN \E char_to_num \in Enumerations(char_set) :
            df' = [i \in DOMAIN df |->
                     [Protein |-> df[i].Protein,
                      SMILES |-> df[i].SMILES,
                      Sequence |-> df[i].Sequence,
                      Encoded_Sequence |->
                          Encode(aa_to_num, df[i].Sequence, max_seq_len),
                      Encoded_SMILES |->
                          Encode(char_to_num, df[i].SMILES, max_smiles_len)]]
    /\ pc' = "encoded"
    /\ UNCHANGED <<error, splitVars, loaderVars, trainVars, evalVars>>

NextEncode == encode_sequences

SpecEncode == InitEncode /\ [][NextEncode]_vars

\* C1: every encoded vector has the column's maximum length L, starts with
\* the vocabulary index of each character of the string (0 for a character
\* outside the vocabulary) and is 0 from position len(S) on; for the SMILES
\* column the vocabulary is an injective numbering 1..k of the characters
\* that occur in the column.
EncodedAsSpecified ==
    pc = "encoded" =>
      LET LSeq == Max({Len(df[i].Sequence) : i \in DOMAIN df})
          LSmi == Max({Len(df[i].SMILES) : i \in DOMAIN df})
      IN \A i \in DOMAIN df :
           LET S == df[i].Sequence
               M == df[i].SMILES
               vS == df[i].Encoded_Sequence
               vM == df[i].Encoded_SMILES
           IN /\ Len(vS) = LSeq
              /\ Len(vM) = LSmi
              /\ \A k \in 1..Len(S) :
                   \/ /\ S[k] \in Range(amino_acids)
                      /\ vS[k] \in 1..20
                      /\ amino_acids[vS[k]] = S[k]
                   \/ /\ S[k] \notin Range(amino_acids)
                      /\ vS[k] = 0
              /\ \A k \in (Len(S) + 1)..LSeq : vS[k] = 0
              /\ \A k \in 1..Len(M) : vM[k] \in 1..Cardinality(CharSet(df, "SMILES"))
              /\ \A j \in DOMAIN df : \A k \in 1..Len(M) :
                   \A l \in 1..Len(df[j].SMILES) :
                     (df[j].Encoded_SMILES[l] = vM[k]) <=> (df[j].SMILES[l] = M[k])
              /\ \A k \in (Len(M) + 1)..LSmi : vM[k] = 0

\* C1 witness: an encoded frame with a padded row, an unknown residue and a
\* known residue
EncodedWitness ==
    /\ pc = "encoded"
    /\ \E i, j \in DOMAIN df :
         /\ Len(df[i].Sequence) < Len(df[j].Sequence)
         /\ Len(df[i].SMILES) < Len(df[j].SMILES)
         /\ "X" \in Range(df[j].Sequence)
         /\ "Y" \in Range(df[j].Sequence)
         /\ Cardinality(Range(df[j].SMILES)) = 2

(***************************************************************************)
(* train_test_split_proteins                                               *)
(***************************************************************************)
\* bounds of the frames handed to train_test_split_proteins
MaxRows == 5            \* rows of a small frame
MaxSmallProteins == 2   \* distinct protein ids of a small frame
MaxProteins == 76       \* distinct protein ids of a large frame
ExtraRows == {0, 2}     \* rows of a large frame beyond one per protein

\* the literal 42 of test_size=42 / len(proteins)
HeldOut == 42

Row(p) == [Protein |-> p, SMILES |-> <<>>, Sequence |-> <<>>]

SmallFrames ==
    UNION {{[i \in 1..n |-> Row(f[i])] : f \in [1..n -> 1..MaxSmallProteins]} :
              n \in 0..MaxRows}

\* n proteins, one row each, then `extra` more rows of proteins 1, 2, ...
LargeFrames ==
    {[i \in 1..(n + extra) |-> Row(((i - 1) % n) + 1)] :
        n \in (MaxSmallProteins + 1)..MaxProteins, extra \in ExtraRows}

SplitFrames == SmallFrames \cup LargeFrames

\* df['Protein'].unique(): the distinct ids in order of first appearance
Unique(frame) ==
    LET at == SortedSeq({i \in DOMAIN frame :
                     \A j \in 1..(i - 1) : frame[j].Protein # frame[i].Protein})
    IN [k \in DOMAIN at |-> frame[at[k]].Protein]

\* IsIn gone wrong: the ids are matched against the index labels
IsInByLabel(frame, ids) == SortedSeq({i \in DOMAIN frame : i \in Range(ids)})

\* df[df['Protein'].isin(ids)], as index labels in frame order
IsIn(frame, ids) ==
    SortedSeq({i \in DOMAIN frame : frame[i].Protein \in Range(ids)})

\* 2^k mod n
RECURSIVE Pow2Mod(_, _)
Pow2Mod(k, n) == IF k = 0 THEN 1 % n ELSE (2 * Pow2Mod(k - 1, n)) % n

RECURSIVE Pow2(_)
Pow2(k) == IF k = 0 THEN 1 ELSE 2 * Pow2(k - 1)

\* least j >= 0 with c * 2^j >= n
RECURSIVE ShiftFor(_, _, _)
ShiftFor(c, n, j) == IF c * Pow2(j) >= n THEN j ELSE ShiftFor(c, n, j + 1)

\* sklearn's n_test = ceil(test_size * n_samples) for the double
\* test_size = 42 / n, n > 42.  With j = ShiftFor(42, n, 0) the quotient lies in
\* [2^-j, 2^(1-j)) and its 53-bit mantissa is m = rne(42 * 2^k / n), k = 52 + j.
\* m * n = 42 * 2^k + d with d = -r (rounded down) or n - r (rounded up), r the
\* remainder of 42 * 2^k by n.  The product 42 + d * 2^-k is rounded to a
\* double of spacing 2^-47, so it exceeds 42 exactly when d > 2^(k-48) (the
\* tie d = 2^(k-48) rounds to 42, whose mantissa is even), and then ceil
\* gives 43.
NTest(n) ==
    LET j == ShiftFor(HeldOut, n, 0)
        k == 52 + j
        r == ((HeldOut % n) * Pow2Mod(k, n)) % n
        r2 == ((HeldOut % (2 * n)) * Pow2Mod(k, 2 * n)) % (2 * n)
        quotientOdd == r2 >= n
        roundsUp == 2 * r > n \/ (2 * r = n /\ quotientOdd)
        d == IF roundsUp THEN n - r ELSE 0 - r
    IN IF d > Pow2(k - 48) THEN HeldOut + 1 ELSE HeldOut

\* ValidTestSize gone wrong: the range check is left out
AnyTestSize(n) == TRUE

\* sklearn's check 0 < test_size < 1 of the float 42 / n
ValidTestSize(n) == HeldOut < n

\* seq[a:b] for 0 <= a, Python's clamping of the bounds
Slice(seq, a, b) ==
    LET hi == IF b < Len(seq) THEN b ELSE Len(seq)
    IN IF hi <= a THEN <<>> ELSE SubSeq(seq, a + 1, hi)

\* sklearn's ShuffleSplit over `items`: permutation[:n_test] is the test
\* side, permutation[n_test:n_test + n_train] the train side.  The
\* permutation drawn with random_state=42 is fixed by numpy's generator; the
\* model lets it be any rotation of the identity.
Rotation(n, s) == [i \in 1..n |-> ((i - 1 + s) % n) + 1]
ShuffleSplit(items, n_test, n_train) ==
    {LET ind_test == Slice(permutation, 0, n_test)
         ind_train == Slice(permutation, n_test, n_test + n_train)
     IN [train |-> [i \in DOMAIN ind_train |-> items[ind_train[i]]],
         test |-> [i \in DOMAIN ind_test |-> items[ind_test[i]]]] :
       permutation \in {Rotation(Len(items), s) : s \in 0..(Len(items) - 1)}}

\* SampleSize gone wrong: int(frac * n) instead of round(frac * n)
SampleSizeTruncated(n) == (7 * n) \div 10

\* pandas' round(frac * n) for the double frac = 0.7: Python's round of a
\* double, half to even.  7n/10 is either 1/10 or more away from a half
\* integer, where the double product rounds like the exact one, or exactly a
\* half integer h; the double 0.7 is 0.4 * 2^-53 below 7/10, so the product
\* h - 0.4 * n * 2^-53 is rounded back up to h when 0.4 * n is at most 2^e,
\* 2^e <= 0.7 n < 2^(e+1) (and then round goes to the even neighbour), and
\* stays below h otherwise (and then round goes down).
RECURSIVE Pow2Below(_, _)
Pow2Below(x10, e) == IF 10 * 2 * e <= x10 THEN Pow2Below(x10, 2 * e) ELSE e
SampleSize(n) ==
    LET q == (7 * n) \div 10
        rem == (7 * n) % 10
    IN IF rem < 5 THEN q
       ELSE IF rem > 5 THEN q + 1
       ELSE IF 4 * n <= 10 * Pow2Below(7 * n, 1)
            THEN (IF q % 2 = 0 THEN q ELSE q + 1)
            ELSE q

\* the entries of a label sequence that are in the set `kept`, in order
Filter(labels, kept) ==
    LET pos == SortedSeq({i \in DOMAIN labels : labels[i] \in kept})
    IN [i \in DOMAIN pos |-> labels[pos[i]]]

\* Drop gone wrong: nothing is dropped
DropNothing(labels, dropped) == labels

\* protein_data.drop(train_part.index): the rows whose label is not dropped
Drop(labels, dropped) ==
    Filter(labels, Range(labels) \ Range(dropped))

\* The loop over df['Protein'].unique() and the two pd.concat: every
\* (train_data, test_data) the samples can produce for the proteins
\* prots[lo..hi].  sample(frac=0.7, random_state=42) draws SampleSize(n) of
\* the protein's n rows without replacement, in the order drawn; the draw is
\* fixed by numpy's generator and the model lets it be any arrangement.
\* The parts are concatenated in the order of prots; the recursion halves
\* the range instead of walking it, which concatenates the same parts in the
\* same order.
RECURSIVE SeenSplits(_, _, _, _)
SeenSplits(frame, prots, lo, hi) ==
    IF lo > hi THEN {[train |-> <<>>, test |-> <<>>]}
    ELSE IF lo = hi
    THEN LET protein_data == IsIn(frame, <<prots[lo]>>)
             size == SampleSize(Len(protein_data))
         IN {[train |-> train_part, test |-> Drop(protein_data, train_part)] :
                 train_part \in Arrangements(Range(protein_data), size)}
    ELSE LET mid == (lo + hi) \div 2
             left == SeenSplits(frame, prots, lo, mid)
             right == SeenSplits(frame, prots, mid + 1, hi)
         IN {[train |-> a.train \o b.train, test |-> a.test \o b.test] :
                 a \in left, b \in right}

InitSplit ==
    /\ pc = "encoded"
    /\ error = "none"
    /\ df \in SplitFrames
    /\ IdleSplit /\ IdleLoader /\ IdleTrain /\ IdleEval

\* train_test_split_proteins(df, new_proteins=True), no protein in the frame:
\* 42 / len(proteins) divides by zero
SplitNewEmpty ==
    /\ pc = "encoded"
    /\ Len(Unique(df)) = 0
    /\ pc' = "error"
    /\ error' = "ZeroDivisionError"
    /\ new_proteins' = TRUE
    /\ UNCHANGED <<df, train_proteins, test_proteins, train_data, test_data,
                   loaderVars, trainVars, evalVars>>

\* train_test_split_proteins(df, new_proteins=True), train_test_split raises:
\* test_size is not inside (0, 1), or no protein is left for training
SplitNewRejected ==
    /\ pc = "encoded"
    /\ LET n == Len(Unique(df))
       IN /\ n > 0
          /\ \/ ~ValidTestSize(n)
             \/ n - NTest(n) = 0
    /\ pc' = "error"
    /\ error' = "ValueError"
    /\ new_proteins' = TRUE
    /\ UNCHANGED <<df, train_proteins, test_proteins, train_data, test_data,
                   loaderVars, trainVars, evalVars>>

\* train_test_split_proteins(df, new_proteins=True) returning a split
SplitNew ==
    /\ pc = "encoded"
    /\ LET proteins == Unique(df)
           n == Len(proteins)
           n_test == NTest(n)
           n_train == n - n_test
       IN /\ n > 0
          /\ ValidTestSize(n)
          /\ n_train # 0
          /\ \E parts \in ShuffleSplit(proteins, n_test, n_train) :
               /\ train_proteins' = parts.train
               /\ test_proteins' = parts.test
               /\ train_data' = IsIn(df, parts.train)
               /\ test_data' = IsIn(df, parts.test)
    /\ pc' = "split"
    /\ new_proteins' = TRUE
    /\ UNCHANGED <<error, df, loaderVars, trainVars, evalVars>>

\* train_test_split_proteins(df, new_proteins=False) on an empty frame:
\* pd.concat([]) raises
SplitSeenEmpty ==
    /\ pc = "encoded"
    /\ Len(Unique(df)) = 0
    /\ pc' = "error"
    /\ error' = "ValueError"
    /\ new_proteins' = FALSE
    /\ UNCHANGED <<df, train_proteins, test_proteins, train_data, test_data,
                   loaderVars, trainVars, evalVars>>

\* train_test_split_proteins(df, new_proteins=False)
SplitSeen ==
    /\ pc = "encoded"
    /\ Len(Unique(df)) > 0
    /\ \E r \in SeenSplits(df, Unique(df), 1, Len(Unique(df))) :
         /\ train_data' = r.train
         /\ test_data' = r.test
    /\ pc' = "split"
    /\ new_proteins' = FALSE
    /\ UNCHANGED <<error, df, train_proteins, test_proteins,
                   loaderVars, trainVars, evalVars>>

NextSplit ==
    \/ SplitNewEmpty
    \/ SplitNewRejected
    \/ SplitNew
    \/ SplitSeenEmpty
    \/ SplitSeen

SpecSplit == InitSplit /\ [][NextSplit]_vars

\* number of entries of a label sequence equal to x
Count(labels, x) == Cardinality({i \in DOMAIN labels : labels[i] = x})

\* the protein ids of the rows a returned frame holds
ProteinsOf(labels) == {df[labels[i]].Protein : i \in DOMAIN labels}

\* the rows of protein p a returned frame holds
RowsOf(labels, p) == Cardinality({i \in DOMAIN labels : df[labels[i]].Protein = p})

\* C2: whenever train_test_split_proteins returns, under either policy,
\* every input row is in exactly one of train and test, exactly once, and
\* nothing else is in them.
SplitIsPartition ==
    pc = "split" =>
      /\ \A i \in DOMAIN df : Count(train_data, i) + Count(test_data, i) = 1
      /\ Range(train_data) \cup Range(test_data) \subseteq DOMAIN df

\* C2 witness: a returned Policy B split with rows on both sides
SplitIsPartitionWitness ==
    /\ pc = "split"
    /\ new_proteins = FALSE
    /\ Len(df) = MaxRows
    /\ Len(train_data) >= 2
    /\ Len(test_data) >= 2

\* C3: under Policy A no protein id is on both sides, and a row is in test
\* exactly when its protein is held out (in train exactly when it is not).
NoProteinOnBothSides ==
    (pc = "split" /\ new_proteins = TRUE) =>
      /\ ProteinsOf(train_data) \cap ProteinsOf(test_data) = {}
      /\ Range(train_proteins) \cap Range(test_proteins) = {}
      /\ \A i \in DOMAIN df :
           /\ (i \in Range(test_data)) <=> (df[i].Protein \in Range(test_proteins))
           /\ (i \in Range(train_data)) <=> (df[i].Protein \notin Range(test_proteins))

\* C3 witness: a returned Policy A split of a frame where a held-out protein
\* and a training protein both have several rows
NoProteinOnBothSidesWitness ==
    /\ pc = "split"
    /\ new_proteins = TRUE
    /\ \E p \in Range(test_proteins) : RowsOf(test_data, p) >= 2
    /\ \E p \in Range(train_proteins) : RowsOf(train_data, p) >= 2

\* C4: under Policy A, with more than 42 distinct proteins, exactly 42 are
\* held out and the others are kept for training.
HeldOutIsExactly42 ==
    (pc = "split" /\ new_proteins = TRUE /\ Len(Unique(df)) > HeldOut) =>
      /\ Cardinality(ProteinsOf(test_data)) = HeldOut
      /\ Cardinality(ProteinsOf(train_data)) = Len(Unique(df)) - HeldOut

\* C5: under Policy B a protein with n >= 2 rows has rows on both sides and
\* its train rows number 0.7 * n rounded to a nearest integer; a protein
\* with one row is wholly on one side.
SeenSplitSeventyPercent ==
    (pc = "split" /\ new_proteins = FALSE) =>
      \A p \in Range(Unique(df)) :
        LET n == Cardinality({i \in DOMAIN df : df[i].Protein = p})
            tr == RowsOf(train_data, p)
            te == RowsOf(test_data, p)
        IN /\ tr + te = n
           /\ n >= 2 => /\ tr >= 1
                        /\ te >= 1
                        /\ 10 * tr - 7 * n <= 5
                        /\ 7 * n - 10 * tr <= 5
           /\ n = 1 => (tr = 0 \/ te = 0)

\* C5 witness: a returned Policy B split with a protein of 4 rows (0.7 n is
\* not an integer) and a protein of one row
SeenSplitWitness ==
    /\ pc = "split"
    /\ new_proteins = FALSE
    /\ \E p, q \in Range(Unique(df)) :
         /\ RowsOf(train_data, p) + RowsOf(test_data, p) = 4
         /\ RowsOf(train_data, q) + RowsOf(test_data, q) = 1

\* C6: under Policy A with at most 42 distinct proteins the call ends in an
\* error and returns nothing; and no returned Policy A split has an empty
\* side.
FewProteinsRejected ==
    /\ (pc \in {"split", "error"} /\ new_proteins = TRUE
            /\ Len(Unique(df)) <= HeldOut) =>
         /\ pc = "error"
         /\ error \in {"ZeroDivisionError", "ValueError"}
         /\ train_data = Idle
         /\ test_data = Idle
    /\ (pc = "split" /\ new_proteins = TRUE) =>
         /\ train_data # <<>>
         /\ test_data # <<>>

\* C6 witness: Policy A rejected a frame with exactly 42 distinct proteins
FewProteinsWitness ==
    /\ pc = "error"
    /\ new_proteins = TRUE
    /\ error = "ValueError"
    /\ Len(Unique(df)) = HeldOut

(***************************************************************************)
(* prepare_dataloader: DataLoader(dataset, batch_size, shuffle=True)       *)
(***************************************************************************)
\* len(dataloader): drop_last is left at False, so ceil(n / batch_size)
LoaderLen(n, b) == (n + b - 1) \div b

\* The batches the iterator can yield next in a pass that has yielded the
\* rows `yielded`: the next min(batch_size, rows left) entries of the random
\* permutation the sampler drew for the pass, that is any arrangement of
\* that many rows among those not yet yielded.
NextBatches(n, b, yielded) ==
    LET left == n - Len(yielded)
        size == IF b < left THEN b ELSE left
    IN Arrangements((1..n) \ Range(yielded), size)

(***************************************************************************)
(* train_model                                                             *)
(***************************************************************************)
\* bounds of the arguments of train_model
MaxTrainRows == 5
MaxTrainBatch == 3
MaxEpochs == 2
\* the values loss.item() is drawn from
LossValues == {0, 1}

RECURSIVE SumSeq(_)
SumSeq(s) == IF s = <<>> THEN 0 ELSE s[1] + SumSeq(Tail(s))

InitTrain ==
    /\ pc = "for_epoch"
    /\ error = "none"
    /\ df = Idle
    /\ n_rows \in 1..MaxTrainRows
    /\ batch_size \in 1..MaxTrainBatch
    /\ epochs \in 1..MaxEpochs
    /\ epoch = 0
    /\ pass_rows = <<>>
    /\ n_batches = 0
    /\ total_loss = 0
    /\ losses = <<>>
    /\ opt_steps = 0
    /\ reports = <<>>
    /\ IdleSplit /\ IdleEval

\* for epoch in range(epochs): total_loss = 0, and the inner for statement
\* starts a new pass over train_loader
BeginEpoch ==
    /\ pc = "for_epoch"
    /\ epoch < epochs
    /\ total_loss' = 0
    /\ losses' = <<>>
    /\ pass_rows' = <<>>
    /\ n_batches' = 0
    /\ pc' = "for_batch"
    /\ UNCHANGED <<error, df, splitVars, n_rows, batch_size, epochs, epoch,
                   opt_steps, reports, evalVars>>

\* one iteration of the inner loop on a batch of two or more rows
TrainBatch ==
    /\ pc = "for_batch"
    /\ Len(pass_rows) < n_rows
    /\ \E batch \in NextBatches(n_rows, batch_size, pass_rows) :
         /\ Len(batch) >= 2
         /\ pass_rows' = pass_rows \o batch
    /\ n_batches' = n_batches + 1
    /\ \E loss \in LossValues :
         /\ total_loss' = total_loss + loss
         /\ losses' = Append(losses, loss)
    /\ opt_steps' = opt_steps + 1
    /\ UNCHANGED <<pc, error, df, splitVars, n_rows, batch_size, epochs, epoch,
                   reports, evalVars>>

\* one iteration of the inner loop on a batch of one row: in training mode
\* BatchNorm1d rejects a (1, 512) input, model(X_batch) raises ValueError
TrainBatchSingleRow ==
    /\ pc = "for_batch"
    /\ Len(pass_rows) < n_rows
    /\ \E batch \in NextBatches(n_rows, batch_size, pass_rows) :
         /\ Len(batch) = 1
         /\ pass_rows' = pass_rows \o batch
    /\ n_batches' = n_batches + 1
    /\ pc' = "error"
    /\ error' = "ValueError"
    /\ UNCHANGED <<df, splitVars, n_rows, batch_size, epochs, epoch, total_loss,
                   losses, opt_steps, reports, evalVars>>

\* the loader is exhausted: print total_loss / len(train_loader)
EndEpoch ==
    /\ pc = "for_batch"
    /\ Len(pass_rows) = n_rows
    /\ reports' = Append(reports, [num |-> total_loss,
                                   den |-> LoaderLen(n_rows, batch_size)])
    /\ epoch' = epoch + 1
    /\ pc' = "for_epoch"
    /\ UNCHANGED <<error, df, splitVars, loaderVars, epochs, total_loss, losses,
                   opt_steps, evalVars>>

\* range(epochs) is exhausted: train_model returns
TrainReturn ==
    /\ pc = "for_epoch"
    /\ epoch = epochs
    /\ pc' = "trained"
    /\ UNCHANGED <<error, df, splitVars, loaderVars, trainVars, evalVars>>

NextTrain ==
    \/ BeginEpoch
    \/ TrainBatch
    \/ TrainBatchSingleRow
    \/ EndEpoch
    \/ TrainReturn

SpecTrain == InitTrain /\ [][NextTrain]_vars

CeilDiv(a, b) == (a + b - 1) \div b

NoDuplicates(s) == \A i, j \in DOMAIN s : i # j => s[i] # s[j]

\* C8: train_model always ends by returning after all the epochs, with E
\* reports and E * ceil(N / B) optimizer steps.
TrainAlwaysRunsAllEpochs ==
    pc \in {"trained", "error"} =>
      /\ pc = "trained"
      /\ Len(reports) = epochs
      /\ opt_steps = epochs * CeilDiv(n_rows, batch_size)

\* What train_model does: when no batch holds a single row (B >= 2 and
\* N mod B # 1) it never raises and returns after exactly E passes, each of
\* ceil(N / B) batches that cover every row once (only the last one smaller
\* than B), with one optimizer step per batch and a report of the pass's
\* summed batch losses over ceil(N / B); when B = 1 or N mod B = 1 it raises
\* ValueError in the first pass at the first single-row batch, before any
\* report, after floor(N / B) optimizer steps (none when B = 1).
TrainRunsAllEpochsUnlessSingleRow ==
    LET single == batch_size = 1 \/ n_rows % batch_size = 1
        perPass == CeilDiv(n_rows, batch_size)
    IN /\ pc = "error" =>
            /\ single
            /\ error = "ValueError"
            /\ epoch = 0
            /\ reports = <<>>
            /\ opt_steps = (IF batch_size = 1 THEN 0 ELSE n_rows \div batch_size)
       /\ pc = "trained" =>
            /\ ~single
            /\ epoch = epochs
            /\ Len(reports) = epochs
            /\ opt_steps = epochs * perPass
       /\ pc \in {"for_epoch", "for_batch", "trained"} =>
            /\ Len(reports) = epoch
            /\ \A e \in DOMAIN reports : reports[e].den = perPass
            /\ epoch <= epochs
       /\ pc = "for_batch" =>
            /\ NoDuplicates(pass_rows)
            /\ Range(pass_rows) \subseteq 1..n_rows
            /\ n_batches = CeilDiv(Len(pass_rows), batch_size)
            /\ Len(pass_rows) < n_rows => Len(pass_rows) = n_batches * batch_size
            /\ opt_steps = epoch * perPass + n_batches
            /\ Len(losses) = n_batches
            /\ total_loss = SumSeq(losses)
       /\ (pc \in {"for_epoch", "trained"} /\ epoch > 0) =>
            /\ Range(pass_rows) = 1..n_rows
            /\ Len(pass_rows) = n_rows
            /\ n_batches = perPass
            /\ opt_steps = epoch * perPass
            /\ reports[epoch] = [num |-> SumSeq(losses), den |-> n_batches]

\* train_model returned after two passes whose last batch was smaller than
\* the batch size
TrainWitness ==
    /\ pc = "trained"
    /\ epochs = 2
    /\ n_rows = 5
    /\ batch_size = 3
    /\ reports[1].num # reports[2].num

(***************************************************************************)
(* evaluate_model_with_metrics                                             *)
(***************************************************************************)
\* bounds of the test loader handed to evaluate_model_with_metrics
MaxEvalRows == 3
MaxEvalBatch == 3
\* The affinities of the test rows and the outputs of the trained model.
\* They are whole numbers, which the float32 tensors hold exactly.
AffValues == {11, 13, 14}
PredValues == {11, 14}

\* y_true > 12.1 for a whole-number affinity, in tenths
Positive(y) == 10 * y > 121

SumOf(s) == SumOver(s, DOMAIN s)
SumSq(s) == SumOver([i \in DOMAIN s |-> s[i] * s[i]], DOMAIN s)
SumProd(s, t) == SumOver([i \in DOMAIN s |-> s[i] * t[i]], DOMAIN s)

\* n * (sum of squared deviations from the mean) of s
NVar(s) == Len(s) * SumSq(s) - SumOf(s) * SumOf(s)

\* mean_squared_error(y_true, y_pred) as a fraction
MeanSquaredError(yt, yp) ==
    [num |-> SumOver([i \in DOMAIN yt |-> (yt[i] - yp[i]) * (yt[i] - yp[i])], DOMAIN yt),
     den |-> Len(yt)]

\* r2_score(y_true, y_pred): nan (with a warning) for fewer than two
\* samples; 1 - SS_res / SS_tot; when SS_tot = 0 the score is forced finite,
\* 1.0 for a perfect prediction and 0.0 otherwise.
R2Score(yt, yp) ==
    LET ssRes == MeanSquaredError(yt, yp).num
        nSsTot == NVar(yt)
    IN IF Len(yt) < 2 THEN "nan"
       ELSE IF nSsTot = 0 THEN (IF ssRes = 0 THEN [num |-> 1, den |-> 1]
                                ELSE [num |-> 0, den |-> 1])
       ELSE [num |-> nSsTot - Len(yt) * ssRes, den |-> nSsTot]

\* ConcordanceCounts gone wrong: a tied prediction counts as correct
ConcordanceCountsTiesCorrect(yt, yp) ==
    LET earlier(i) == {j \in DOMAIN yt : yt[j] < yt[i]}
    IN [pairs |-> SumOver([i \in DOMAIN yt |-> Cardinality(earlier(i))], DOMAIN yt),
        correct |-> SumOver([i \in DOMAIN yt |->
                       Cardinality({j \in earlier(i) : yp[j] <= yp[i]})], DOMAIN yt),
        tied |-> 0]

\* lifelines' _concordance_summary_statistics with every event observed:
\* the samples are handled in increasing order of the true value, all those
\* of one true value together, against the tree of the predictions of the
\* samples with a smaller true value; a sample adds the size of the tree to
\* num_pairs, its rank in the tree (predictions below its own) to
\* num_correct and the count of predictions equal to its own to num_tied.
ConcordanceCounts(yt, yp) ==
    LET earlier(i) == {j \in DOMAIN yt : yt[j] < yt[i]}
    IN [pairs |-> SumOver([i \in DOMAIN yt |-> Cardinality(earlier(i))], DOMAIN yt),
        correct |-> SumOver([i \in DOMAIN yt |->
                       Cardinality({j \in earlier(i) : yp[j] < yp[i]})], DOMAIN yt),
        tied |-> SumOver([i \in DOMAIN yt |->
                       Cardinality({j \in earlier(i) : yp[j] = yp[i]})], DOMAIN yt)]

\* lifelines' _concordance_ratio: (num_correct + num_tied / 2) / num_pairs
ConcordanceRatio(c) == [num |-> 2 * c.correct + c.tied, den |-> 2 * c.pairs]

\* scipy's pearsonr(y_true, y_pred): nan (with ConstantInputWarning) when
\* either input is constant, else cov / sqrt(var_x * var_y), kept as the
\* three sums (each times n)
PearsonR(yt, yp) ==
    IF NVar(yt) = 0 \/ NVar(yp) = 0 THEN "nan"
    ELSE [cov |-> Len(yt) * SumProd(yt, yp) - SumOf(yt) * SumOf(yp),
          varx |-> NVar(yt),
          vary |-> NVar(yp)]

RECURSIVE Factorial(_)
Factorial(n) == IF n = 0 THEN 1 ELSE n * Factorial(n - 1)

\* auc(recall, precision) of precision_recall_curve(y_true > 12.1, y_pred),
\* as a fraction.  One point per distinct prediction t, taken as threshold:
\* tps(t) positives and ps(t) samples are predicted >= t;
\* precision = tps / ps, recall = tps / P with P the number of positives, or
\* 1 at every threshold when P = 0 (with a warning); the curve ends with the
\* point precision 1, recall 0.  The points are in increasing order of t,
\* recall decreasing, and auc sums the trapezoids
\* (recall_k - recall_k+1) * (precision_k + precision_k+1) / 2.
\* Precisions are scaled by n! and recalls by P to stay whole.
AUPR(yt, yp) ==
    LET n == Len(yt)
        P == Cardinality({i \in DOMAIN yt : Positive(yt[i])})
        scaleR == IF P = 0 THEN 1 ELSE P
        thresholds == SortedSeq(Range(yp))
        m == Len(thresholds)
        tps(t) == Cardinality({i \in DOMAIN yt : yp[i] >= t /\ Positive(yt[i])})
        ps(t) == Cardinality({i \in DOMAIN yt : yp[i] >= t})
        precision(k) == IF k > m THEN Factorial(n)
                        ELSE (tps(thresholds[k]) * Factorial(n)) \div ps(thresholds[k])
        recall(k) == IF k > m THEN 0
                     ELSE IF P = 0 THEN 1
                     ELSE tps(thresholds[k])
    IN [num |-> SumOver([k \in 1..m |-> (recall(k) - recall(k + 1))
                                          * (precision(k) + precision(k + 1))], 1..m),
        den |-> 2 * scaleR * Factorial(n)]

InitEval ==
    /\ pc = "for_batch"
    /\ error = "none"
    /\ df = Idle
    /\ n_rows \in 1..MaxEvalRows
    /\ batch_size \in 1..MaxEvalBatch
    /\ pass_rows = <<>>
    /\ n_batches = 0
    /\ affinity \in [1..n_rows -> AffValues]
    /\ model_out \in [1..n_rows -> PredValues]
    /\ y_true = <<>>
    /\ y_pred = <<>>
    /\ metrics = "none"
    /\ IdleSplit /\ IdleTrain

\* one iteration of the loop over test_loader on a batch of two or more
\* rows: the (k, 1) output is squeezed to shape (k,) and both lists grow by k
EvalBatch ==
    /\ pc = "for_batch"
    /\ Len(pass_rows) < n_rows
    /\ \E batch \in NextBatches(n_rows, batch_size, pass_rows) :
         /\ Len(batch) >= 2
         /\ pass_rows' = pass_rows \o batch
         /\ y_true' = y_true \o [i \in DOMAIN batch |-> affinity[batch[i]]]
         /\ y_pred' = y_pred \o [i \in DOMAIN batch |-> model_out[batch[i]]]
    /\ n_batches' = n_batches + 1
    /\ UNCHANGED <<pc, error, df, splitVars, n_rows, batch_size, trainVars,
                   affinity, model_out, metrics>>

\* one iteration of the loop on a batch of one row: the (1, 1) output is
\* squeezed to a 0-d tensor; y_true is extended, then y_pred.extend of the
\* 0-d array raises TypeError
EvalBatchSingleRow ==
    /\ pc = "for_batch"
    /\ Len(pass_rows) < n_rows
    /\ \E batch \in NextBatches(n_rows, batch_size, pass_rows) :
         /\ Len(batch) = 1
         /\ pass_rows' = pass_rows \o batch
         /\ y_true' = y_true \o [i \in DOMAIN batch |-> affinity[batch[i]]]
    /\ n_batches' = n_batches + 1
    /\ pc' = "error"
    /\ error' = "TypeError"
    /\ UNCHANGED <<df, splitVars, n_rows, batch_size, trainVars,
                   affinity, model_out, y_pred, metrics>>

\* the loader is exhausted and no two true values differ: mean_squared_error
\* and r2_score return, then concordance_index finds no admissible pair and
\* raises ZeroDivisionError
EvalNoAdmissiblePairs ==
    /\ pc = "for_batch"
    /\ Len(pass_rows) = n_rows
    /\ ConcordanceCounts(y_true, y_pred).pairs = 0
    /\ pc' = "error"
    /\ error' = "ZeroDivisionError"
    /\ UNCHANGED <<df, splitVars, loaderVars, trainVars, evalVars>>

\* the loader is exhausted: the five metrics are computed and returned
EvalReturn ==
    /\ pc = "for_batch"
    /\ Len(pass_rows) = n_rows
    /\ ConcordanceCounts(y_true, y_pred).pairs # 0
    /\ metrics' = [mse |-> MeanSquaredError(y_true, y_pred),
                   r2 |-> R2Score(y_true, y_pred),
                   ci |-> ConcordanceRatio(ConcordanceCounts(y_true, y_pred)),
                   pearson_corr |-> PearsonR(y_true, y_pred),
                   aupr |-> AUPR(y_true, y_pred)]
    /\ pc' = "evaluated"
    /\ UNCHANGED <<error, df, splitVars, loaderVars, trainVars,
                   affinity, model_out, y_true, y_pred>>

NextEval ==
    \/ EvalBatch
    \/ EvalBatchSingleRow
    \/ EvalNoAdmissiblePairs
    \/ EvalReturn

SpecEval == InitEval /\ [][NextEval]_vars

Constant(s) == \A i, j \in DOMAIN s : s[i] = s[j]

NumPositive(s) == Cardinality({i \in DOMAIN s : Positive(s[i])})

\* C7: a returned metric that is degenerate is the sentinel "undefined":
\* R2 and Pearson when the true values have no variance, Pearson when the
\* predictions are constant, AUPR when no or every true value is above 12.1.
DegenerateMetricsFlagged ==
    pc = "evaluated" =>
      /\ Constant(y_true) => (metrics.r2 = "undefined"
                                 /\ metrics.pearson_corr = "undefined")
      /\ Constant(y_pred) => metrics.pearson_corr = "undefined"
      /\ NumPositive(y_true) \in {0, Len(y_true)} => metrics.aupr = "undefined"

\* the unordered pairs of samples whose true values differ
ComparablePairs == {p \in SUBSET (DOMAIN y_true) :
                       /\ Cardinality(p) = 2
                       /\ \E i, j \in p : y_true[i] < y_true[j]}
\* among them, those whose predictions are ordered like the true values
ConcordantPairs == {p \in ComparablePairs :
                       \E i, j \in p : y_true[i] < y_true[j] /\ y_pred[i] < y_pred[j]}
\* and those whose predictions are equal
TiedPairs == {p \in ComparablePairs : \E i, j \in p : i # j /\ y_pred[i] = y_pred[j]}

\* C9: the returned concordance index is (concordant + tied / 2) / comparable
\* over the pairs with different true values; it is 1 for predictions equal
\* to the true values and 0 for predictions that decrease strictly with them.
ConcordanceIndexAsSpecified ==
    pc = "evaluated" =>
      /\ metrics.ci.den > 0
      /\ metrics.ci.num * (2 * Cardinality(ComparablePairs))
            = (2 * Cardinality(ConcordantPairs) + Cardinality(TiedPairs)) * metrics.ci.den
      /\ y_pred = y_true => metrics.ci.num = metrics.ci.den
      /\ (\A i, j \in DOMAIN y_true :
             /\ y_true[i] < y_true[j] => y_pred[i] > y_pred[j]
             /\ y_true[i] = y_true[j] => y_pred[i] = y_pred[j])
           => metrics.ci.num = 0

\* C9 witness: metrics returned for three samples, two of them with equal
\* true values, with one concordant and one prediction-tied pair
ConcordanceWitness ==
    /\ pc = "evaluated"
    /\ Len(y_true) = 3
    /\ Cardinality(ComparablePairs) = 2
    /\ Cardinality(ConcordantPairs) = 1
    /\ Cardinality(TiedPairs) = 1

\* C10: the evaluation pass never raises, and once the loader is exhausted
\* y_true and y_pred hold the N rows' true values and predictions, row by row.
EvalPassCollectsEveryRow ==
    /\ ~(pc = "error" /\ error = "TypeError")
    /\ Len(pass_rows) = n_rows =>
         /\ Len(y_true) = n_rows
         /\ Len(y_pred) = n_rows
         /\ \A i \in 1..n_rows : /\ y_true[i] = affinity[pass_rows[i]]
                                 /\ y_pred[i] = model_out[pass_rows[i]]

====
